---- MODULE Spec2Model ----
(***************************************************************************)
(* A model of zfs-autosnap: the retention policy parser                    *)
(* (RetentionPolicy::from_str, in the library src/lib.rs and in the        *)
(* binary src/main.rs), the retention engine check_age, the aggregator     *)
(* gc_find with the gc run do_gc, and destroy_snapshot.                    *)
(*                                                                         *)
(* Strings are sequences of characters; a character is a one-character     *)
(* string for ASCII, and "e2" / "e3" stand for a non-ASCII character whose *)
(* UTF-8 encoding takes two / three bytes.  A u32 or i32 value is kept as  *)
(* its canonical decimal numeral (a sequence of digits 0..9 without        *)
(* leading zeros, <<0>> for zero): u32 values exceed the integers the      *)
(* model checker computes with.                                            *)
(***************************************************************************)
EXTENDS Integers, Sequences, FiniteSets, TLC

VARIABLES
    \* the parser: its input, which from_str runs, the scan position, the
    \* policy built so far, and where the call is (scan, done, panic)
    x, impl, pos, policy, ppc,
    \* check_age: the snapshot list as passed, the list as the sort left it,
    \* the policy, the result, and whether the call has returned
    snapshots, ordered, rp, result, apc,
    \* destroy_snapshot: the identifier, which destroy_snapshot runs, how the
    \* command ends, the call's outcome, the commands issued, and whether the
    \* call has ended
    dname, dimpl, dcmd, dres, dissued, dpc,
    \* a gc run (do_gc): the snapshots listed, each dataset's property lookup,
    \* the groups, the groups not yet checked, the datasets looked up, the
    \* accumulated keep and delete, the result gc_find returned, the index
    \* into its delete list, the destroy commands issued, and where the run is
    gsnaps, props, by_dataset, todo, looked, gkeep, gdelete, check, di, issued,
    gpc,
    \* parse_snapshots: the rows of the listing, the index of the row the loop
    \* is at, the records pushed so far, the value returned, and where the
    \* call is (loop, done)
    lines, lidx, parsed, lres, lpc

parseVars == <<x, impl, pos, policy, ppc>>
ageVars == <<snapshots, ordered, rp, result, apc>>
destroyVars == <<dname, dimpl, dcmd, dres, dissued, dpc>>
gcVars == <<gsnaps, props, by_dataset, todo, looked, gkeep, gdelete, check, di,
            issued, gpc>>
listVars == <<lines, lidx, parsed, lres, lpc>>
vars == <<parseVars, ageVars, destroyVars, gcVars, listVars>>

\* Option::None of an Option<u32> or Option<i32>: a numeral is never empty.
None == <<>>

(***************************************************************************)
(* Characters and numerals                                                 *)
(***************************************************************************)
Markers == {"y", "m", "w", "d", "h"}

DigitChars == {"0", "1", "2", "3", "4", "5", "6", "7", "8", "9"}

\* char::is_ascii_digit
is_ascii_digit(ch) == ch \in DigitChars

\* Unicode's White_Space (char::is_whitespace).  A character that a string
\* of the model cannot hold is written by its code point.
WhiteSpace ==
    {"\t", "\n", "U+000B", "\f", "\r", " ", "U+0085", "U+00A0", "U+1680",
     "U+2000", "U+2001", "U+2002", "U+2003", "U+2004", "U+2005", "U+2006",
     "U+2007", "U+2008", "U+2009", "U+200A", "U+2028", "U+2029", "U+202F",
     "U+205F", "U+3000"}

\* The number of bytes of a character's UTF-8 encoding (char::len_utf8).
len_utf8(ch) ==
    IF ch \in {"e2", "U+0085", "U+00A0"} THEN 2
    ELSE IF ch = "e3" \/ (ch \in WhiteSpace /\ ch \notin {"\t", "\n", "U+000B", "\f", "\r", " "})
    THEN 3 ELSE 1

DigitValue(ch) ==
    CASE ch = "0" -> 0 [] ch = "1" -> 1 [] ch = "2" -> 2 [] ch = "3" -> 3
      [] ch = "4" -> 4 [] ch = "5" -> 5 [] ch = "6" -> 6 [] ch = "7" -> 7
      [] ch = "8" -> 8 [] ch = "9" -> 9

RECURSIVE StripZeros(_)
\* A digit sequence without its leading zeros (at least one digit is kept).
StripZeros(ds) ==
    IF Len(ds) > 1 /\ ds[1] = 0 THEN StripZeros(Tail(ds)) ELSE ds

RECURSIVE LexLeq(_, _)
\* a <= b for digit sequences of the same length.
LexLeq(a, b) ==
    IF a = <<>> THEN TRUE
    ELSE IF a[1] < b[1] THEN TRUE
    ELSE IF a[1] > b[1] THEN FALSE
    ELSE LexLeq(Tail(a), Tail(b))

\* a <= b for canonical numerals.
NumLeq(a, b) ==
    \/ Len(a) < Len(b)
    \/ Len(a) = Len(b) /\ LexLeq(a, b)

\* u32::MAX = 4294967295 and i32::MAX = 2147483647
U32Max == <<4, 2, 9, 4, 9, 6, 7, 2, 9, 5>>
I32Max == <<2, 1, 4, 7, 4, 8, 3, 6, 4, 7>>

\* i64::MAX = 9223372036854775807 and -(i32::MIN) = 2147483648
I64Max == <<9, 2, 2, 3, 3, 7, 2, 0, 3, 6, 8, 5, 4, 7, 7, 5, 8, 0, 7>>
I32MinAbs == <<2, 1, 4, 7, 4, 8, 3, 6, 4, 8>>

\* str::parse::<u32> / ::<i32> on a run of ASCII digits: an error (None here)
\* for the empty string and for a value above the type's maximum.
parse_int(digits, max) ==
    IF digits = <<>> THEN None
    ELSE LET n == StripZeros([k \in 1..Len(digits) |-> DigitValue(digits[k])])
         IN  IF NumLeq(n, max) THEN n ELSE None

MaxOf(ch) == IF ch = "y" THEN I32Max ELSE U32Max

FieldOf(ch) ==
    CASE ch = "y" -> "yearly" [] ch = "m" -> "monthly" [] ch = "w" -> "weekly"
      [] ch = "d" -> "daily" [] ch = "h" -> "hourly"

Fields == {"yearly", "monthly", "weekly", "daily", "hourly"}

EmptyPolicy == [f \in Fields |-> None]

(***************************************************************************)
(* Byte offsets of a string                                                *)
(***************************************************************************)
RECURSIVE ByteLen(_)
ByteLen(s) == IF s = <<>> THEN 0 ELSE len_utf8(s[1]) + ByteLen(Tail(s))

\* The byte offset at which the k-th character (1-based) starts;
\* ByteOffset(s, Len(s) + 1) is the string's byte length.
ByteOffset(s, k) == ByteLen(SubSeq(s, 1, k - 1))

\* str::is_char_boundary
is_char_boundary(s, b) == \E k \in 1..(Len(s) + 1) : ByteOffset(s, k) = b

\* &s[start..] for a byte offset start that is a character boundary.
SliceFrom(s, start) ==
    LET k == CHOOSE j \in 1..(Len(s) + 1) : ByteOffset(s, j) = start
    IN  SubSeq(s, k, Len(s))

RECURSIVE take_while_digit(_)
\* s.chars().take_while(|ch| ch.is_ascii_digit())
take_while_digit(s) ==
    IF s = <<>> \/ ~is_ascii_digit(s[1]) THEN <<>>
    ELSE <<s[1]>> \o take_while_digit(Tail(s))

\* lib.rs digits_from(start, s): the run of digits at byte offset start.
\* The slice panics when start is not a character boundary.
digits_from_panics(start, s) == ~is_char_boundary(s, start)

digits_from(start, s) == take_while_digit(SliceFrom(s, start))

(***************************************************************************)
(* RetentionPolicy::from_str                                               *)
(*                                                                         *)
(* A scan is at character position pos (1-based) of x.  A step returns the *)
(* next position and policy, or reports the panic of the Rust code.        *)
(***************************************************************************)
Step(p, pol, panicked) == [pos |-> p, policy |-> pol, panic |-> panicked]

\* src/lib.rs: one iteration of `while let Some((i, ch)) = chars.next()`.
\* i is the index of ch among the characters (pos - 1), and digits_from is
\* called with i + 1 as a byte offset.
lib_step(s, p, pol) ==
    LET ch == s[p]
        start == (p - 1) + 1
    IN  IF ch \in Markers
        THEN IF digits_from_panics(start, s)
             THEN Step(p, pol, TRUE)
             ELSE Step(p + 1,
                       [pol EXCEPT ![FieldOf(ch)] =
                            parse_int(digits_from(start, s), MaxOf(ch))],
                       FALSE)
        ELSE Step(p + 1, pol, FALSE)

\* src/main.rs: one step of RE.captures_iter(x) for "[hdwmy][0-9]+": a match
\* at p sets the field from the whole digit run (parse(..).unwrap() panics on
\* a value that does not fit) and the scan goes on after the run; without a
\* match at p the scan moves one character on.
main_step(s, p, pol) ==
    LET ch == s[p]
        run == take_while_digit(SubSeq(s, p + 1, Len(s)))
    IN  IF ch \in Markers /\ run # <<>>
        THEN IF parse_int(run, MaxOf(ch)) = None
             THEN Step(p, pol, TRUE)
             ELSE Step(p + 1 + Len(run),
                       [pol EXCEPT ![FieldOf(ch)] = parse_int(run, MaxOf(ch))],
                       FALSE)
        ELSE Step(p + 1, pol, FALSE)

from_str_step(which, s, p, pol) ==
    IF which = "lib" THEN lib_step(s, p, pol) ELSE main_step(s, p, pol)

RECURSIVE from_str_run(_, _, _, _)
\* The whole scan from position p: Ok(policy), or the panic.
from_str_run(which, s, p, pol) ==
    IF p > Len(s) THEN [panic |-> FALSE, policy |-> pol]
    ELSE LET r == from_str_step(which, s, p, pol)
         IN  IF r.panic THEN [panic |-> TRUE, policy |-> pol]
             ELSE from_str_run(which, s, r.pos, r.policy)

\* RetentionPolicy::from_str(x) of src/lib.rs ("lib") or src/main.rs ("main").
from_str(which, s) == from_str_run(which, s, 1, EmptyPolicy)

(***************************************************************************)
(* Each specification below runs one part of the program; the variables of *)
(* the other parts stay at these values.                                   *)
(***************************************************************************)
NoResult == [keep |-> <<>>, delete |-> <<>>]

\* gc_find has not returned an AgeCheckResult.
NoCheck == [returned |-> FALSE, keep |-> <<>>, delete |-> <<>>]

ParseIdle ==
    /\ x = <<>>
    /\ impl = "lib"
    /\ pos = 1
    /\ policy = EmptyPolicy
    /\ ppc = "idle"

AgeIdle ==
    /\ snapshots = <<>>
    /\ ordered = <<>>
    /\ rp = EmptyPolicy
    /\ result = NoResult
    /\ apc = "idle"

DestroyIdle ==
    /\ dname = <<>>
    /\ dimpl = "lib"
    /\ dcmd = "ok"
    /\ dres = "none"
    /\ dissued = <<>>
    /\ dpc = "idle"

\* parse_snapshots has returned nothing.
NoList == [kind |-> "none", value |-> <<>>, error |-> ""]

ListIdle ==
    /\ lines = <<>>
    /\ lidx = 1
    /\ parsed = <<>>
    /\ lres = NoList
    /\ lpc = "idle"

GcIdle ==
    /\ gsnaps = <<>>
    /\ props = <<>>
    /\ by_dataset = <<>>
    /\ todo = {}
    /\ looked = {}
    /\ gkeep = <<>>
    /\ gdelete = <<>>
    /\ check = NoCheck
    /\ di = 1
    /\ issued = <<>>
    /\ gpc = "idle"


(***************************************************************************)
(* Policy strings the parser is run on: up to MaxSegs pieces, each a       *)
(* marker, a digit, a long digit run, or a non-marker character.           *)
(***************************************************************************)
MaxSegs == 3

Segments ==
    {<<m>> : m \in Markers} \cup
    {<<"0">>, <<"1">>, <<"a">>, <<"e2">>, <<"e3">>,
     <<"4", "2", "9", "4", "9", "6", "7", "2", "9", "6">>,
     <<"2", "1", "4", "7", "4", "8", "3", "6", "4", "8">>}

RECURSIVE Concats(_)
Concats(n) ==
    IF n = 0 THEN {<<>>}
    ELSE LET prev == Concats(n - 1)
         IN  prev \cup {a \o b : a \in prev, b \in Segments}

PolicyStrings == Concats(MaxSegs)

Impls == {"lib", "main"}

ParseInit ==
    /\ x \in PolicyStrings
    /\ impl \in Impls
    /\ pos = 1
    /\ policy = EmptyPolicy
    /\ ppc = "scan"
    /\ AgeIdle /\ DestroyIdle /\ GcIdle /\ ListIdle

\* One iteration of the parser's loop.
ParseChar ==
    /\ ppc = "scan"
    /\ pos <= Len(x)
    /\ LET r == from_str_step(impl, x, pos, policy)
       IN  /\ ~r.panic
           /\ pos' = r.pos
           /\ policy' = r.policy
    /\ UNCHANGED <<x, impl, ppc, ageVars, destroyVars, gcVars, listVars>>

\* The iteration panics (a slice off a character boundary, or an unwrap).
ParsePanic ==
    /\ ppc = "scan"
    /\ pos <= Len(x)
    /\ from_str_step(impl, x, pos, policy).panic
    /\ ppc' = "panic"
    /\ UNCHANGED <<x, impl, pos, policy, ageVars, destroyVars, gcVars, listVars>>

\* The loop ends: Ok(policy).
ParseReturn ==
    /\ ppc = "scan"
    /\ pos > Len(x)
    /\ ppc' = "done"
    /\ UNCHANGED <<x, impl, pos, policy, ageVars, destroyVars, gcVars, listVars>>

ParseNext == ParseChar \/ ParsePanic \/ ParseReturn

SpecParse == ParseInit /\ [][ParseNext]_vars

(***************************************************************************)
(* Timestamps and period buckets                                           *)
(*                                                                         *)
(* created is a chrono::DateTime<Utc>, kept as its timestamp(): seconds    *)
(* since 1970-01-01T00:00:00Z.  created.format(pattern) is kept as the     *)
(* tuple of the numbers the pattern prints.                                *)
(***************************************************************************)
DaysOf(ts) == ts \div 86400

\* %H
HourOf(ts) == (ts % 86400) \div 3600

\* %w: the day of the week, Sunday = 0 (1970-01-01 was a Thursday).
WeekdayOf(ts) == (DaysOf(ts) + 4) % 7

\* The proleptic Gregorian date <<year, month, day>> of a day number.
CivilFromDays(days) ==
    LET z == days + 719468
        era == z \div 146097
        doe == z - era * 146097
        yoe == (doe - doe \div 1460 + doe \div 36524 - doe \div 146096) \div 365
        doy == doe - (365 * yoe + yoe \div 4 - yoe \div 100)
        mp == (5 * doy + 2) \div 153
        d == doy - (153 * mp + 2) \div 5 + 1
        m == IF mp < 10 THEN mp + 3 ELSE mp - 9
        y == yoe + era * 400 + (IF m <= 2 THEN 1 ELSE 0)
    IN  <<y, m, d>>

\* Creation times: 2021-10-04 00:10 and 00:40 (a Monday, the same hour),
\* 2021-10-05 02:00 (Tuesday), 2021-10-11 02:00 (the next Monday) and
\* 2020-12-28 02:00 (a Monday of the year before).
Times == {1633306200, 1633308000, 1633399200, 1633917600, 1609120800}

\* The dates of the creation times, computed once.
CivilDate == [ts \in Times |-> CivilFromDays(DaysOf(ts))]

\* created.format(pattern).to_string() for the five patterns of rules().
format(ts, pattern) ==
    LET ymd == CivilDate[ts]
    IN  CASE pattern = "%Y-%m-%d %H" -> <<ymd[1], ymd[2], ymd[3], HourOf(ts)>>
          [] pattern = "%Y-%m-%d" -> <<ymd[1], ymd[2], ymd[3]>>
          [] pattern = "%Y w%w" -> <<ymd[1], WeekdayOf(ts)>>
          [] pattern = "%Y-%m" -> <<ymd[1], ymd[2]>>
          [] pattern = "%Y" -> <<ymd[1]>>

(***************************************************************************)
(* RetentionPolicy::rules and check_age                                    *)
(***************************************************************************)
RECURSIVE Numeral(_)
\* The canonical numeral of a natural number.
Numeral(n) == IF n < 10 THEN <<n>> ELSE Numeral(n \div 10) \o <<n % 10>>

\* rules(): the five (pattern, count) pairs in the order they are evaluated.
\* `y as u32` leaves the non-negative yearly count as it is.
rules(pol) ==
    << [pattern |-> "%Y-%m-%d %H", rule |-> pol.hourly],
       [pattern |-> "%Y-%m-%d", rule |-> pol.daily],
       [pattern |-> "%Y w%w", rule |-> pol.weekly],
       [pattern |-> "%Y-%m", rule |-> pol.monthly],
       [pattern |-> "%Y", rule |-> pol.yearly] >>

Range(seq) == {seq[i] : i \in 1..Len(seq)}

\* The list without its element at index i.
RemoveAt(seq, i) == SubSeq(seq, 1, i - 1) \o SubSeq(seq, i + 1, Len(seq))

\* The key of the sort: |s| -s.created.timestamp().
sort_key(s) == -s.created

RECURSIVE insert_tail_before_equal(_, _)
\* The insertion with the comparison `not greater`: the record goes before
\* the records of its key.
insert_tail_before_equal(v, tail) ==
    IF v = <<>> \/ ~(sort_key(tail) <= sort_key(v[Len(v)])) THEN Append(v, tail)
    ELSE Append(insert_tail_before_equal(SubSeq(v, 1, Len(v) - 1), tail), v[Len(v)])

RECURSIVE insert_tail(_, _)
\* The insertion of tail, the record after the sorted v, into v: it goes before
\* the records at the end of v that it is less than (is_less on the keys).
insert_tail(v, tail) ==
    IF v = <<>> \/ ~(sort_key(tail) < sort_key(v[Len(v)])) THEN Append(v, tail)
    ELSE Append(insert_tail(SubSeq(v, 1, Len(v) - 1), tail), v[Len(v)])

RECURSIVE insertion_sort_shift_left(_)
\* The insertion sort of the library: each record in turn is inserted into
\* the sorted records before it.
insertion_sort_shift_left(v) ==
    IF Len(v) <= 1 THEN v
    ELSE insert_tail(insertion_sort_shift_left(SubSeq(v, 1, Len(v) - 1)), v[Len(v)])

\* The greatest length of a list that the library's unstable sort sorts by
\* insertion.
MAX_LEN_ALWAYS_INSERTION_SORT == 20

RECURSIVE orderings_by_key(_)
\* Every ordering of the list by key: any record with the least key first,
\* then any ordering of the others.
orderings_by_key(snaps) ==
    IF snaps = <<>> THEN {<<>>}
    ELSE LET first == {i \in 1..Len(snaps) : \A j \in 1..Len(snaps) :
                          sort_key(snaps[i]) <= sort_key(snaps[j])}
         IN  UNION {{<<snaps[i]>> \o rest :
                        rest \in orderings_by_key(RemoveAt(snaps, i))}
                    : i \in first}

RECURSIVE sort_by_key_oldest_first(_)
\* The sort with the key's sign dropped: oldest first.
sort_by_key_oldest_first(snaps) ==
    IF snaps = <<>> THEN {<<>>}
    ELSE LET first == {i \in 1..Len(snaps) : \A j \in 1..Len(snaps) :
                          -sort_key(snaps[i]) <= -sort_key(snaps[j])}
         IN  UNION {{<<snaps[i]>> \o rest :
                        rest \in sort_by_key_oldest_first(RemoveAt(snaps, i))}
                    : i \in first}

\* snapshots.sort_unstable_by_key(|s| -s.created.timestamp()): the outcomes of
\* the sort, the list newest first.  A list of up to 20 records is sorted by
\* insertion, which leaves records of equal keys in their input order; of a
\* longer list the sort promises an ordering by key and no more, so every such
\* ordering is an outcome.
sort_unstable_by_key(snaps) ==
    IF Len(snaps) <= MAX_LEN_ALWAYS_INSERTION_SORT
    THEN {insertion_sort_shift_left(snaps)}
    ELSE orderings_by_key(snaps)

RECURSIVE scan_rule(_, _, _, _, _, _, _)
\* The inner loop `for snapshot in snapshots.iter()` of one rule from index i:
\* last is the period of the record accepted last, kept the number accepted,
\* to_keep the keep-set so far.  Returns the keep-set after the loop.
scan_rule(pattern, number_to_keep, sorted, i, last, kept, to_keep) ==
    IF i > Len(sorted) THEN to_keep
    ELSE LET period == format(sorted[i].created, pattern)
         IN  IF last # period
             THEN IF Numeral(kept + 1) = number_to_keep
                  THEN to_keep \cup {sorted[i]}
                  ELSE scan_rule(pattern, number_to_keep, sorted, i + 1,
                                 period, kept + 1, to_keep \cup {sorted[i]})
             ELSE scan_rule(pattern, number_to_keep, sorted, i + 1,
                            last, kept, to_keep)

\* A rule without the Some(0) arm: a count of zero is scanned like any other,
\* and kept never equals it.
apply_rule_zero_scans(r, sorted, to_keep) ==
    IF r.rule = None THEN to_keep
    ELSE scan_rule(r.pattern, r.rule, sorted, 1, None, 0, to_keep)

\* A rule that stops once kept >= number_to_keep, tested after the record is
\* kept: a count of zero keeps one record.
apply_rule_zero_keeps_one(r, sorted, to_keep) ==
    IF r.rule = None THEN to_keep
    ELSE scan_rule(r.pattern, IF r.rule = <<0>> THEN <<1>> ELSE r.rule,
                   sorted, 1, None, 0, to_keep)

\* A rule that starts from a fresh keep-set, as if to_keep were declared inside
\* the loop over the rules.
apply_rule_fresh(r, sorted, to_keep) ==
    IF r.rule = None \/ r.rule = <<0>> THEN to_keep
    ELSE scan_rule(r.pattern, r.rule, sorted, 1, None, 0, {})

\* One iteration of `for (pattern, rule) in self.rules()`: Some(0) and None
\* keep nothing.
apply_rule(r, sorted, to_keep) ==
    IF r.rule = None \/ r.rule = <<0>> THEN to_keep
    ELSE scan_rule(r.pattern, r.rule, sorted, 1, None, 0, to_keep)

RECURSIVE apply_rules(_, _, _, _)
apply_rules(rs, k, sorted, to_keep) ==
    IF k > Len(rs) THEN to_keep
    ELSE apply_rules(rs, k + 1, sorted, apply_rule(rs[k], sorted, to_keep))

\* A partition whose delete list is not filtered.
partition_unfiltered(sorted, to_keep) ==
    [keep |-> SelectSeq(sorted, LAMBDA s : s \in to_keep),
     delete |-> sorted]

\* The partition of the sorted list by membership in the keep-set.
partition(sorted, to_keep) ==
    [keep |-> SelectSeq(sorted, LAMBDA s : s \in to_keep),
     delete |-> SelectSeq(sorted, LAMBDA s : s \notin to_keep)]

\* check_age after the sort: the rules, then the partition.
check_age_sorted(pol, sorted) ==
    partition(sorted, apply_rules(rules(pol), 1, sorted, {}))

\* check_age(snapshots): every result the sort's outcomes allow.  check_age of
\* src/main.rs, which gc_find calls, is the same algorithm on owned records.
check_age(pol, snaps) ==
    {check_age_sorted(pol, sorted) : sorted \in sort_unstable_by_key(snaps)}


(***************************************************************************)
(* check_age run on one dataset's snapshots                                *)
(***************************************************************************)
MaxSnaps == 3
MaxCount == 3

IndexChar(k) ==
    CASE k = 1 -> "1" [] k = 2 -> "2" [] k = 3 -> "3" [] k = 4 -> "4"
      [] k = 5 -> "5" [] k = 6 -> "6" [] k = 7 -> "7" [] k = 8 -> "8"
      [] OTHER -> "9"

\* The k-th snapshot of a dataset: <dataset>@<k>, a name of its own.
Snapshot(dataset, k, ts) ==
    [name |-> dataset \o <<"@", IndexChar(k)>>, created |-> ts, used |-> <<0>>]

SnapshotLists(dataset) ==
    UNION {{[k \in 1..n |-> Snapshot(dataset, k, ts[k])] : ts \in [1..n -> Times]}
           : n \in 0..MaxSnaps}

Counts == {None} \cup {Numeral(k) : k \in 0..MaxCount}

\* The policies with at most two of the five counts set.
Policies ==
    {[h \in Fields |-> IF h = f THEN a ELSE IF h = g THEN b ELSE None] :
        f \in Fields, g \in Fields, a \in Counts, b \in Counts}

AgeInit ==
    /\ rp \in Policies
    /\ snapshots \in SnapshotLists(<<"a">>)
    /\ ordered = <<>>
    /\ result = NoResult
    /\ apc = "start"
    /\ ParseIdle /\ DestroyIdle /\ GcIdle /\ ListIdle

\* rp.check_age(&mut snapshots)
CheckAge ==
    /\ apc = "start"
    /\ ordered' \in sort_unstable_by_key(snapshots)
    /\ result' = check_age_sorted(rp, ordered')
    /\ apc' = "done"
    /\ UNCHANGED <<snapshots, rp, parseVars, destroyVars, gcVars, listVars>>

AgeNext == CheckAge

SpecAge == AgeInit /\ [][AgeNext]_vars

\* check_age on a dataset's snapshots as the listing gives them, in the order
\* they were created: the runs on which the result is compared with the
\* result under another policy.
AgeCountsInit ==
    /\ rp \in Policies
    /\ snapshots \in {l \in SnapshotLists(<<"a">>) :
                        \A k \in 1..(Len(l) - 1) : l[k].created <= l[k + 1].created}
    /\ ordered = <<>>
    /\ result = NoResult
    /\ apc = "start"
    /\ ParseIdle /\ DestroyIdle /\ GcIdle /\ ListIdle

SpecAgeCounts == AgeCountsInit /\ [][AgeNext]_vars


(***************************************************************************)
(* destroy_snapshot                                                        *)
(***************************************************************************)
\* snapshot.name.contains('@')
contains_at(name) == \E i \in 1..Len(name) : name[i] = "@"

\* How the zfs command of call_do can end: exit status 0, another exit
\* status, or the process cannot be run.
CmdOutcomes == {"ok", "fail", "spawn"}

\* call_do: Ok(()) on success, Err("zfs command error") on another exit
\* status, the subprocess error when the command cannot be run.
call_do(cmd) ==
    CASE cmd = "ok" -> "Ok"
      [] cmd = "fail" -> "Err(zfs command error)"
      [] cmd = "spawn" -> "Err(subprocess)"

\* destroy_snapshot without its check of the name.
destroy_snapshot_unguarded(which, name, cmd) ==
    [outcome |-> call_do(cmd), issued |-> TRUE]

\* destroy_snapshot(snapshot) of src/zfs.rs ("lib") and ZFS::destroy_snapshot
\* of src/main.rs ("main"): the outcome, and whether `zfs destroy` is issued.
\* Without '@' in the name the library returns an error and the binary
\* panics, both with the same message.
destroy_snapshot(which, name, cmd) ==
    IF ~contains_at(name)
    THEN [outcome |-> IF which = "lib"
                      THEN "Err(Tried to destroy something that is not a snapshot)"
                      ELSE "panic(Tried to destroy something that is not a snapshot)",
          issued |-> FALSE]
    ELSE [outcome |-> call_do(cmd), issued |-> TRUE]

MaxNameLen == 3

\* Identifiers destroy_snapshot is called with: with and without '@'.
Identifiers ==
    UNION {[1..n -> {"a", "/", "@"}] : n \in 1..MaxNameLen}

DestroyInit ==
    /\ dname \in Identifiers
    /\ dimpl \in Impls
    /\ dcmd \in CmdOutcomes
    /\ dres = "none"
    /\ dissued = <<>>
    /\ dpc = "start"
    /\ ParseIdle /\ AgeIdle /\ GcIdle /\ ListIdle

\* One call of destroy_snapshot.
DestroyCall ==
    /\ dpc = "start"
    /\ LET r == destroy_snapshot(dimpl, dname, dcmd)
       IN  /\ dres' = r.outcome
           /\ dissued' = IF r.issued THEN Append(dissued, dname) ELSE dissued
    /\ dpc' = "done"
    /\ UNCHANGED <<dname, dimpl, dcmd, parseVars, ageVars, gcVars, listVars>>

DestroyNext == DestroyCall

SpecDestroy == DestroyInit /\ [][DestroyNext]_vars


(***************************************************************************)
(* gc_find and do_gc (src/main.rs)                                         *)
(***************************************************************************)
\* A grouping key that stops after the first character of the name.
dataset_name_first_char(name) == SubSeq(name, 1, 1)

RECURSIVE dataset_name(_)
\* snapshot.name.split("@").next(): the name up to its first '@' (the whole
\* name when it has none).
dataset_name(name) ==
    IF name = <<>> \/ name[1] = "@" THEN <<>>
    ELSE <<name[1]>> \o dataset_name(Tail(name))

\* The HashMap by_dataset built from the listing: each dataset name with its
\* snapshots in listing order.
group_by_dataset(snaps) ==
    [key \in {dataset_name(s.name) : s \in Range(snaps)} |->
        SelectSeq(snaps, LAMBDA s : dataset_name(s.name) = key)]

\* ZFS::get_property(key, PROPERTY_SNAPKEEP) as the run finds it: the value,
\* an error of the command (`?`), or no output row (unwrap panics).
Found(value) == [kind |-> "ok", value |-> value]
LookupErr == [kind |-> "err", value |-> <<>>]
LookupPanic == [kind |-> "panic", value |-> <<>>]

\* A gc run that destroys the wrong one of the two lists.
to_destroy_keep(c) == c.keep

\* do_gc iterates over check.delete.
to_destroy(c) == c.delete

MaxListed == 3

Datasets == {<<"a">>, <<"a", "b">>}

\* Creation times of listed snapshots: two in one hour, one a day later.
GcTimes == {1633306200, 1633308000, 1633399200}

\* The listing of `zfs list -t snapshot`: every name is <dataset>@<suffix>.
Listings ==
    UNION {{[k \in 1..n |-> Snapshot(ds[k], k, ts[k])] :
               ds \in [1..n -> Datasets], ts \in [1..n -> GcTimes]}
           : n \in 0..MaxListed}

\* The property values: "h1", "d2" and one whose count exceeds u32.
PropertyValues ==
    {<<"h", "1">>, <<"d", "2">>,
     <<"m", "4", "2", "9", "4", "9", "6", "7", "2", "9", "6">>}

Lookups == {Found(v) : v \in PropertyValues} \cup {LookupErr, LookupPanic}

GcInit ==
    /\ props \in [Datasets -> Lookups]
    /\ gsnaps \in Listings
    /\ by_dataset = <<>>
    /\ todo = {}
    /\ looked = {}
    /\ gkeep = <<>>
    /\ gdelete = <<>>
    /\ check = NoCheck
    /\ di = 1
    /\ issued = <<>>
    /\ gpc = "start"
    /\ ParseIdle /\ AgeIdle /\ DestroyIdle /\ ListIdle

\* gc_find: list_snapshots succeeds and the snapshots are grouped.
GcList ==
    /\ gpc = "start"
    /\ by_dataset' = group_by_dataset(gsnaps)
    /\ todo' = DOMAIN group_by_dataset(gsnaps)
    /\ gpc' = "find"
    /\ UNCHANGED <<gsnaps, props, looked, gkeep, gdelete, check, di, issued>>
    /\ UNCHANGED <<parseVars, ageVars, destroyVars, listVars>>

\* gc_find: list_snapshots fails (`?`) or panics on a row it cannot parse.
GcListFail ==
    /\ gpc = "start"
    /\ gpc' \in {"error", "panic"}
    /\ UNCHANGED <<gsnaps, props, by_dataset, todo, looked, gkeep, gdelete,
                   check, di, issued>>
    /\ UNCHANGED <<parseVars, ageVars, destroyVars, listVars>>

\* gc_find: one iteration of `for (key, group) in &by_dataset`, in the
\* HashMap's order: the lookup succeeds, the policy parses, check_age runs
\* and its lists are appended.
GcCheckGroup ==
    /\ gpc = "find"
    /\ \E key \in todo :
          /\ props[key].kind = "ok"
          /\ ~from_str("main", props[key].value).panic
          /\ \E c \in check_age(from_str("main", props[key].value).policy,
                                by_dataset[key]) :
                /\ gkeep' = gkeep \o c.keep
                /\ gdelete' = gdelete \o c.delete
          /\ looked' = looked \cup {key}
          /\ todo' = todo \ {key}
    /\ UNCHANGED <<gsnaps, props, by_dataset, check, di, issued, gpc>>
    /\ UNCHANGED <<parseVars, ageVars, destroyVars, listVars>>

\* A best-effort aggregation: a group whose lookup fails is skipped.
GcLookupFail_skip ==
    /\ gpc = "find"
    /\ \E key \in todo :
          /\ props[key].kind = "err"
          /\ todo' = todo \ {key}
    /\ UNCHANGED <<gsnaps, props, by_dataset, looked, gkeep, gdelete, check,
                   di, issued, gpc>>
    /\ UNCHANGED <<parseVars, ageVars, destroyVars, listVars>>

\* gc_find: the lookup of a group returns an error: `?` returns it from
\* gc_find, and do_gc returns it in turn.
GcLookupFail ==
    /\ gpc = "find"
    /\ \E key \in todo : props[key].kind = "err"
    /\ gpc' = "error"
    /\ UNCHANGED <<gsnaps, props, by_dataset, todo, looked, gkeep, gdelete,
                   check, di, issued>>
    /\ UNCHANGED <<parseVars, ageVars, destroyVars, listVars>>

\* gc_find: get_property unwraps a missing output row, or from_str unwraps a
\* count that does not fit: the run panics.
GcLookupPanic ==
    /\ gpc = "find"
    /\ \E key \in todo :
          \/ props[key].kind = "panic"
          \/ /\ props[key].kind = "ok"
             /\ from_str("main", props[key].value).panic
    /\ gpc' = "panic"
    /\ UNCHANGED <<gsnaps, props, by_dataset, todo, looked, gkeep, gdelete,
                   check, di, issued>>
    /\ UNCHANGED <<parseVars, ageVars, destroyVars, listVars>>

\* gc_find returns Ok(AgeCheckResult { keep, delete }) to do_gc.
GcFound ==
    /\ gpc = "find"
    /\ todo = {}
    /\ check' = [returned |-> TRUE, keep |-> gkeep, delete |-> gdelete]
    /\ di' = 1
    /\ gpc' = "destroy"
    /\ UNCHANGED <<gsnaps, props, by_dataset, todo, looked, gkeep, gdelete,
                   issued>>
    /\ UNCHANGED <<parseVars, ageVars, destroyVars, listVars>>

\* println!: the line is written to standard output, or the write fails (the
\* reader is gone, the device is full) and println! panics.
PrintOutcomes == {"written", "panic"}

\* do_gc: one iteration of `for s in check.delete`: the println! of the
\* record (before the first record also the println! of the total), then
\* destroy_snapshot(s)?.
GcDestroy ==
    /\ gpc = "destroy"
    /\ di <= Len(to_destroy(check))
    /\ \E out \in PrintOutcomes, cmd \in CmdOutcomes :
          LET r == destroy_snapshot("main", to_destroy(check)[di].name, cmd)
          IN  IF out = "panic"
              THEN gpc' = "panic" /\ UNCHANGED <<issued, di>>
              ELSE /\ issued' = IF r.issued
                                THEN Append(issued, to_destroy(check)[di].name)
                                ELSE issued
                   /\ gpc' = IF r.outcome = "Ok" THEN "destroy"
                             ELSE IF r.issued THEN "destroy_error" ELSE "panic"
                   /\ di' = IF r.outcome = "Ok" THEN di + 1 ELSE di
    /\ UNCHANGED <<gsnaps, props, by_dataset, todo, looked, gkeep, gdelete,
                   check>>
    /\ UNCHANGED <<parseVars, ageVars, destroyVars, listVars>>

\* do_gc returns Ok(()).
GcDone ==
    /\ gpc = "destroy"
    /\ di > Len(to_destroy(check))
    /\ gpc' = "done"
    /\ UNCHANGED <<gsnaps, props, by_dataset, todo, looked, gkeep, gdelete,
                   check, di, issued>>
    /\ UNCHANGED <<parseVars, ageVars, destroyVars, listVars>>

GcNext ==
    \/ GcList
    \/ GcListFail
    \/ GcCheckGroup
    \/ GcLookupFail
    \/ GcLookupPanic
    \/ GcFound
    \/ GcDestroy
    \/ GcDone

SpecGc == GcInit /\ [][GcNext]_vars


(***************************************************************************)
(* The listing: chrono's NaiveDateTime::parse_from_str with the format     *)
(* "%a %b %e %H:%M %Y", parse_used and parse_snapshots.  A field of a row  *)
(* is the sequence of its characters.  Errors of chrono carry the message  *)
(* they display, errors of byte_unit their kind.                           *)
(***************************************************************************)
ParseOk(v) == [ok |-> TRUE, value |-> v, error |-> ""]
ParseErr(msg) == [ok |-> FALSE, value |-> 0, error |-> msg]

\* chrono's ParseErrorKind, as Display prints it.
OUT_OF_RANGE == "input is out of range"
IMPOSSIBLE == "no possible date and time matching input"
INVALID == "input contains invalid characters"
TOO_SHORT == "premature end of input"
TOO_LONG == "trailing input"

RECURSIVE trim_left(_)
\* s.trim_start(): the input without the white space it starts with.
trim_left(s) == IF s # <<>> /\ s[1] \in WhiteSpace THEN trim_left(Tail(s)) ELSE s

\* byte | 32 on the letters: the names are matched without regard to case.
to_lower(ch) ==
    CASE ch = "A" -> "a" [] ch = "B" -> "b" [] ch = "C" -> "c" [] ch = "D" -> "d"
      [] ch = "E" -> "e" [] ch = "F" -> "f" [] ch = "G" -> "g" [] ch = "H" -> "h"
      [] ch = "I" -> "i" [] ch = "J" -> "j" [] ch = "K" -> "k" [] ch = "L" -> "l"
      [] ch = "M" -> "m" [] ch = "N" -> "n" [] ch = "O" -> "o" [] ch = "P" -> "p"
      [] ch = "Q" -> "q" [] ch = "R" -> "r" [] ch = "S" -> "s" [] ch = "T" -> "t"
      [] ch = "U" -> "u" [] ch = "V" -> "v" [] ch = "W" -> "w" [] ch = "X" -> "x"
      [] ch = "Y" -> "y" [] ch = "Z" -> "z" [] OTHER -> ch

\* %a and %b: the short names, Sunday = 0 and January = 1.
ShortWeekdays ==
    << <<"s", "u", "n">>, <<"m", "o", "n">>, <<"t", "u", "e">>, <<"w", "e", "d">>,
       <<"t", "h", "u">>, <<"f", "r", "i">>, <<"s", "a", "t">> >>

ShortMonths ==
    << <<"j", "a", "n">>, <<"f", "e", "b">>, <<"m", "a", "r">>, <<"a", "p", "r">>,
       <<"m", "a", "y">>, <<"j", "u", "n">>, <<"j", "u", "l">>, <<"a", "u", "g">>,
       <<"s", "e", "p">>, <<"o", "c", "t">>, <<"n", "o", "v">>, <<"d", "e", "c">> >>

\* The index in a list of names of the name the first three bytes of the
\* input spell, in either case; 0 when they spell none (a character of more
\* than one byte is in no name).
IndexOf(names, letters) ==
    IF Len(letters) < 3 THEN 0
    ELSE LET name == [k \in 1..3 |-> to_lower(letters[k])]
         IN  IF \E i \in 1..Len(names) : names[i] = name
             THEN CHOOSE i \in 1..Len(names) : names[i] = name
             ELSE 0

\* s.len() < n for the byte length of s (a character has at least one byte).
ShorterThan(s, n) == Len(s) < n /\ ByteLen(s) < n

Scanned(v, rest) == [ok |-> TRUE, value |-> v, rest |-> rest, error |-> ""]
ScanErr(msg) == [ok |-> FALSE, value |-> <<>>, rest |-> <<>>, error |-> msg]

\* scan::number(s, min, max): min to max decimal digits at the start of s.
\* The value is held in an i64, here as a numeral (its digits without
\* leading zeros); a value above i64::MAX is out of range.
scan_number(s, min, max) ==
    LET digits == take_while_digit(SubSeq(s, 1, IF max < Len(s) THEN max ELSE Len(s)))
        n == StripZeros([k \in 1..Len(digits) |-> DigitValue(digits[k])])
    IN  IF ShorterThan(s, min) THEN ScanErr(TOO_SHORT)
        ELSE IF Len(digits) < min THEN ScanErr(INVALID)
        ELSE IF ~NumLeq(n, I64Max) THEN ScanErr(OUT_OF_RANGE)
        ELSE Scanned(n, SubSeq(s, Len(digits) + 1, Len(s)))

\* The i64 of a numeric item: its numeral, and whether it is negated.
Signed(neg, digits) == [neg |-> neg, digits |-> digits]

\* A numeric item: white space is skipped, then come up to `width` digits; a
\* signed item (%Y) takes a sign and then digits without a limit, and "-"
\* negates the value.
numeric(s, width, signed) ==
    LET t == trim_left(s)
        n == IF signed /\ t # <<>> /\ t[1] \in {"-", "+"}
             THEN scan_number(Tail(t), 1, Len(t))
             ELSE scan_number(t, 1, width)
    IN  IF ~n.ok THEN n
        ELSE Scanned(Signed(signed /\ t[1] = "-", n.value), n.rest)

RECURSIVE NegValue(_)
\* The negation of the number a numeral writes (i32::MIN has no positive).
NegValue(n) ==
    IF n = <<>> THEN 0
    ELSE 10 * NegValue(SubSeq(n, 1, Len(n) - 1)) - n[Len(n)]

\* The values Parsed takes for a field: set_day, set_hour and set_minute
\* refuse a value outside the range.
FieldRange(field) ==
    CASE field = "day" -> 1..31
      [] field = "hour" -> 0..23
      [] field = "minute" -> 0..59

\* Parsed::set_year, set_day, set_hour, set_minute on the value of a numeric
\* item: the year is an i32, the others are in their range, or the item is
\* out of range.
set(got, field, v) ==
    LET fits == IF v.neg THEN NumLeq(v.digits, I32MinAbs)
                ELSE NumLeq(v.digits, I32Max)
        value == IF v.neg THEN NegValue(v.digits) ELSE 0 - NegValue(v.digits)
    IN  IF ~fits THEN ParseErr(OUT_OF_RANGE)
        ELSE IF field # "year" /\ value \notin FieldRange(field)
        THEN ParseErr(OUT_OF_RANGE)
        ELSE ParseOk([got EXCEPT ![field] = value])

\* StrftimeItems of "%a %b %e %H:%M %Y".
Item(kind, field, width, signed) ==
    [kind |-> kind, field |-> field, width |-> width, signed |-> signed]

FormatItems ==
    << Item("name", "weekday", 3, FALSE), Item("space", "", 0, FALSE),
       Item("name", "month", 3, FALSE), Item("space", "", 0, FALSE),
       Item("numeric", "day", 2, FALSE), Item("space", "", 0, FALSE),
       Item("numeric", "hour", 2, FALSE), Item("literal", ":", 1, FALSE),
       Item("numeric", "minute", 2, FALSE), Item("space", "", 0, FALSE),
       Item("numeric", "year", 4, TRUE) >>

\* Parsed before any item has set a field.
NothingParsed ==
    [weekday |-> 0, month |-> 0, day |-> 0, hour |-> 0, minute |-> 0, year |-> 0]

RECURSIVE parse_items(_, _, _)
\* One item of format::parse on the input s, which the items before it left,
\* and then the items after it.  A numeric item's value is set in Parsed as
\* soon as it is scanned, and a value Parsed refuses ends the parse.
parse_item(items, s, got) ==
    LET it == Head(items)
    IN  CASE it.kind = "space" ->
               parse_items(Tail(items), trim_left(s), got)
          [] it.kind = "literal" ->
               IF s = <<>> THEN ParseErr(TOO_SHORT)
               ELSE IF s[1] # it.field THEN ParseErr(INVALID)
               ELSE parse_items(Tail(items), Tail(s), got)
          [] it.kind = "name" ->
               IF ShorterThan(s, 3) THEN ParseErr(TOO_SHORT)
               ELSE CHOOSE r \in
                      {IF i = 0 THEN ParseErr(INVALID)
                       ELSE parse_items(Tail(items), SubSeq(s, 4, Len(s)),
                               [got EXCEPT ![it.field] =
                                   IF it.field = "weekday" THEN i - 1 ELSE i])
                       : i \in {IndexOf(IF it.field = "weekday" THEN ShortWeekdays
                                        ELSE ShortMonths, s)}} : TRUE
          [] it.kind = "numeric" ->
               CHOOSE r \in
                   {IF ~n.ok THEN ParseErr(n.error)
                    ELSE CHOOSE q \in
                           {IF ~p.ok THEN p
                            ELSE parse_items(Tail(items), n.rest, p.value)
                            : p \in {set(got, it.field, n.value)}} : TRUE
                    : n \in {numeric(s, it.width, it.signed)}} : TRUE

\* format::parse: the items in order; input left after the last item is an
\* error.  (The input and the fields are taken as values, once for each
\* item.)
parse_items(items, s, got) ==
    CHOOSE r \in
        {IF items = <<>>
         THEN IF t = <<>> THEN ParseOk(g) ELSE ParseErr(TOO_LONG)
         ELSE parse_item(items, t, g)
         : t \in {s}, g \in {got}} : TRUE

IsLeap(y) == (y % 4 = 0 /\ y % 100 # 0) \/ y % 400 = 0

DaysInMonth(y, m) ==
    IF m = 2 THEN (IF IsLeap(y) THEN 29 ELSE 28)
    ELSE IF m \in {4, 6, 9, 11} THEN 30 ELSE 31

\* The day number (days since 1970-01-01) of a proleptic Gregorian date.
DaysFromCivil(y, m, d) ==
    LET yy == IF m <= 2 THEN y - 1 ELSE y
        era == yy \div 400
        yoe == yy - era * 400
        mp == IF m > 2 THEN m - 3 ELSE m + 9
        doy == (153 * mp + 2) \div 5 + d - 1
        doe == yoe * 365 + yoe \div 4 - yoe \div 100 + doy
    IN  era * 146097 + doe - 719468

\* The years of a NaiveDate (NaiveDate::MIN and NaiveDate::MAX).
MinYear == -262143
MaxYear == 262142

\* Parsed::to_naive_datetime_with_offset as a timestamp: the date is made (a
\* date that does not exist is out of range, a weekday that is not the
\* date's is impossible), then the time (its fields are in their ranges since
\* they were set).  The timestamp is a number of the model for the dates from
\* 1902 to 2037.
to_naive_datetime(p) ==
    IF p.year < MinYear \/ p.year > MaxYear
       \/ p.day < 1 \/ p.day > DaysInMonth(p.year, p.month)
    THEN ParseErr(OUT_OF_RANGE)
    ELSE IF (DaysFromCivil(p.year, p.month, p.day) + 4) % 7 # p.weekday
    THEN ParseErr(IMPOSSIBLE)
    ELSE IF p.hour > 23 \/ p.minute > 59
    THEN ParseErr(OUT_OF_RANGE)
    ELSE ParseOk(DaysFromCivil(p.year, p.month, p.day) * 86400
                 + p.hour * 3600 + p.minute * 60)

\* NaiveDateTime::parse_from_str(created, "%a %b %e %H:%M %Y"): the items are
\* scanned, then the date and time are made of the fields.
parse_from_str(created) ==
    CHOOSE r \in
        {IF scanned.ok THEN to_naive_datetime(scanned.value) ELSE scanned
         : scanned \in {parse_items(FormatItems, created, NothingParsed)}} : TRUE

\* u128::MAX, the greatest size of a Byte.
U128Max ==
    <<3, 4, 0, 2, 8, 2, 3, 6, 6, 9, 2, 0, 9, 3, 8, 4, 6, 3, 4, 6,
      3, 3, 7, 4, 6, 0, 7, 4, 3, 1, 7, 6, 8, 2, 1, 1, 4, 5, 5>>

RECURSIVE trim_right(_)
trim_right(s) ==
    IF s # <<>> /\ s[Len(s)] \in WhiteSpace
    THEN trim_right(SubSeq(s, 1, Len(s) - 1)) ELSE s

\* s.trim()
trim(s) == trim_right(trim_left(s))

RECURSIVE skip_spaces(_)
\* The loops of Byte::from_str that pass the ' ' between the number and the
\* unit.
skip_spaces(s) == IF s # <<>> /\ s[1] = " " THEN skip_spaces(Tail(s)) ELSE s

RECURSIVE times(_, _, _)
\* The numeral of n * k + carry for a numeral n.  (The numeral and the carry
\* are taken as values, once for each digit.)
times(n, k, carry) ==
    CHOOSE r \in
        {IF m = <<>> THEN (IF c = 0 THEN <<>> ELSE Numeral(c))
         ELSE Append(times(SubSeq(m, 1, Len(m) - 1), k, (m[Len(m)] * k + c) \div 10),
                     (m[Len(m)] * k + c) % 10)
         : m \in {n}, c \in {carry}} : TRUE

RECURSIVE times_power(_, _, _)
\* The numeral of n * k^e.
times_power(n, k, e) ==
    IF e = 0 THEN n ELSE times_power(times(n, k, 0), k, e - 1)

\* ByteUnit: B, and KB to ZB (powers of 1000) or KiB to ZiB (powers of 1024).
ByteUnit(exp, binary) == [ok |-> TRUE, exp |-> exp, binary |-> binary]
UnitIncorrect == [ok |-> FALSE, exp |-> 0, binary |-> FALSE]

UnitLetters == <<"k", "m", "g", "t", "p", "e", "z">>

\* read_xib: the unit that the characters after the number spell, in either
\* case: nothing or B; or a letter of K to Z alone, with B, with i or with iB.
read_xib(u) ==
    LET letter == to_lower(u[1])
        rest == [k \in 1..(Len(u) - 1) |-> to_lower(u[k + 1])]
        exp == CHOOSE k \in 1..Len(UnitLetters) : UnitLetters[k] = letter
    IN  IF u = <<>> THEN ByteUnit(0, FALSE)
        ELSE IF letter = "b"
        THEN IF rest = <<>> THEN ByteUnit(0, FALSE) ELSE UnitIncorrect
        ELSE IF letter \notin Range(UnitLetters) THEN UnitIncorrect
        ELSE IF rest \in {<<>>, <<"b">>} THEN ByteUnit(exp, FALSE)
        ELSE IF rest \in {<<"i">>, <<"i", "b">>} THEN ByteUnit(exp, TRUE)
        ELSE UnitIncorrect

\* get_bytes: the whole bytes of the number that `digits` writes with its
\* last `places` digits after the point, in the unit; at most u128::MAX.  The
\* library computes in f64, which the model does not round: it gives the
\* exact value.
get_bytes(digits, places, unit) ==
    LET scaled == times_power(digits, IF unit.binary THEN 1024 ELSE 1000, unit.exp)
        whole == IF Len(scaled) <= places THEN <<0>>
                 ELSE SubSeq(scaled, 1, Len(scaled) - places)
    IN  IF NumLeq(whole, U128Max) THEN whole ELSE U128Max

\* Byte::from_str: the trimmed input is a number (digits, and after a point at
\* least one more digit), spaces, and a unit.  The size is a numeral.
Byte_from_str(s) ==
    LET t == trim(s)
        whole == take_while_digit(t)
        after_whole == SubSeq(t, Len(whole) + 1, Len(t))
        point == after_whole # <<>> /\ after_whole[1] = "."
        fraction == IF point THEN take_while_digit(Tail(after_whole)) ELSE <<>>
        after == IF point
                 THEN SubSeq(after_whole, Len(fraction) + 2, Len(after_whole))
                 ELSE after_whole
        unit == read_xib(skip_spaces(after))
        digits == StripZeros([k \in 1..(Len(whole) + Len(fraction)) |->
                                 DigitValue((whole \o fraction)[k])])
    IN  IF whole = <<>> THEN ParseErr("ByteError::ValueIncorrect")
        ELSE IF point /\ fraction = <<>> THEN ParseErr("ByteError::ValueIncorrect")
        ELSE IF ~unit.ok THEN ParseErr("ByteError::UnitIncorrect")
        ELSE ParseOk(get_bytes(digits, Len(fraction), unit))

\* parse_used: zfs says 1.2M and means 1.2MiB.
parse_used(used) ==
    IF used # <<>> /\ used[Len(used)] \in {"K", "M", "G", "T", "P", "E", "Z"}
    THEN Byte_from_str(used \o <<"i", "B">>)
    ELSE Byte_from_str(used)

\* One iteration of the loop of parse_snapshots: the row is skipped, gives a
\* record, or ends the call with an error (the `?` of the date, then of the
\* size).
parse_line_always(line) ==
    IF Len(line) = 4
    THEN LET created == parse_from_str(line[2])
             used == parse_used(line[3])
         IN  IF ~created.ok THEN [kind |-> "err", error |-> created.error]
             ELSE IF ~used.ok THEN [kind |-> "err", error |-> used.error]
             ELSE [kind |-> "push",
                   record |-> [name |-> line[1], created |-> created.value,
                               used |-> used.value]]
    ELSE [kind |-> "err", error |-> "list snapshots parse error"]

\* The first arm of the match: [_, _, _, snapkeep] if snapkeep == "-".
skipped(line) == Len(line) = 4 /\ line[4] = <<"-">>

parse_line(line) ==
    IF skipped(line) THEN [kind |-> "skip"] ELSE parse_line_always(line)

(***************************************************************************)
(* parse_snapshots run on a listing of up to MaxRows rows                  *)
(***************************************************************************)
MaxRows == 2

\* Creation fields: "Sat Oct 2 09:59 2021", "Tue Oct  5 02:00 2021" (the day
\* padded as %e prints it), "Sat Oct 1 19:59 2021" (a Friday),
\* "2 Oct 2021 9:52AM" and "Mon Oct 4 00:10" (the year is missing).
CreatedFields ==
    { <<"S", "a", "t", " ", "O", "c", "t", " ", "2", " ", "0", "9", ":", "5", "9", " ", "2", "0", "2", "1">>,
      <<"T", "u", "e", " ", "O", "c", "t", " ", " ", "5", " ", "0", "2", ":", "0", "0", " ", "2", "0", "2", "1">>,
      <<"S", "a", "t", " ", "O", "c", "t", " ", "1", " ", "1", "9", ":", "5", "9", " ", "2", "0", "2", "1">>,
      <<"2", " ", "O", "c", "t", " ", "2", "0", "2", "1", " ", "9", ":", "5", "2", "A", "M">>,
      <<"M", "o", "n", " ", "O", "c", "t", " ", "4", " ", "0", "0", ":", "1", "0">> }

\* Size fields: "13G", "1.2M", "0B" and "K".
UsedFields == { <<"1", "3", "G">>, <<"1", ".", "2", "M">>, <<"0", "B">>, <<"K">> }

NameFields == { <<"a", "@", "1">>, <<"a", "@", "2">> }

\* The rows with a policy in the retention field.
PolicyRows ==
    {<<n, c, u, <<"h", "1">>>> : n \in NameFields, c \in CreatedFields,
                                u \in UsedFields}

\* The rows with "-" in the retention field: with a date that parses and
\* with one that does not (the row "Sat Oct 1 19:59 2021", "2G" of the tests).
OptOutRows ==
    {<<n, c, <<"2", "G">>, <<"-">>>> :
        n \in NameFields,
        c \in {<<"S", "a", "t", " ", "O", "c", "t", " ", "1", " ", "1", "9", ":", "5", "9", " ", "2", "0", "2", "1">>,
               <<"S", "a", "t", " ", "O", "c", "t", " ", "2", " ", "0", "9", ":", "5", "9", " ", "2", "0", "2", "1">>}}

\* Rows of four fields, and rows of one, three and five fields.
Rows ==
    PolicyRows \cup OptOutRows
    \cup { << <<"a">> >>,
           << <<"a", "@", "1">>, <<"0", "B">>, <<"-">> >>,
           << <<"a", "@", "1">>, <<"0", "B">>, <<"0", "B">>, <<"-">>, <<>> >> }

\* parse_line on a row: the rows of the listings are parsed once and their
\* outcomes kept, any other row is parsed when it is met.
LineOutcomes == [row \in Rows |-> parse_line(row)]

outcome(row) ==
    IF row \in DOMAIN LineOutcomes THEN LineOutcomes[row] ELSE parse_line(row)

ListInit ==
    /\ lines \in UNION {[1..n -> Rows] : n \in 0..MaxRows}
    /\ lidx = 1
    /\ parsed = <<>>
    /\ lres = NoList
    /\ lpc = "loop"
    /\ ParseIdle /\ AgeIdle /\ DestroyIdle /\ GcIdle

\* [_, _, _, snapkeep] if snapkeep == "-" => continue
ListSkip ==
    /\ lpc = "loop"
    /\ lidx <= Len(lines)
    /\ outcome(lines[lidx]).kind = "skip"
    /\ lidx' = lidx + 1
    /\ UNCHANGED <<lines, parsed, lres, lpc>>
    /\ UNCHANGED <<parseVars, ageVars, destroyVars, gcVars>>

\* [name, created, used, _] => snapshots.push(metadata)
ListPush ==
    /\ lpc = "loop"
    /\ lidx <= Len(lines)
    /\ \E r \in {outcome(lines[lidx])} :
          /\ r.kind = "push"
          /\ parsed' = Append(parsed, r.record)
    /\ lidx' = lidx + 1
    /\ UNCHANGED <<lines, lres, lpc>>
    /\ UNCHANGED <<parseVars, ageVars, destroyVars, gcVars>>

\* The `?` of a field, or _ => return Err("list snapshots parse error")
ListFail ==
    /\ lpc = "loop"
    /\ lidx <= Len(lines)
    /\ \E r \in {outcome(lines[lidx])} :
          /\ r.kind = "err"
          /\ lres' = [kind |-> "err", value |-> <<>>, error |-> r.error]
    /\ lpc' = "done"
    /\ UNCHANGED <<lines, lidx, parsed>>
    /\ UNCHANGED <<parseVars, ageVars, destroyVars, gcVars>>

\* Ok(snapshots)
ListReturn ==
    /\ lpc = "loop"
    /\ lidx > Len(lines)
    /\ lres' = [kind |-> "ok", value |-> parsed, error |-> ""]
    /\ lpc' = "done"
    /\ UNCHANGED <<lines, lidx, parsed>>
    /\ UNCHANGED <<parseVars, ageVars, destroyVars, gcVars>>

ListNext == ListSkip \/ ListPush \/ ListFail \/ ListReturn

SpecList == ListInit /\ [][ListNext]_vars

(***************************************************************************)
(* Claims about the parser                                                 *)
(***************************************************************************)
\* The marker at position p of s is well-formed: a digit follows it.
WellFormedMarker(s, p) ==
    /\ s[p] \in Markers
    /\ p < Len(s)
    /\ is_ascii_digit(s[p + 1])

\* The canonical numeral of the digit run that follows position p of s.
DecimalAfter(s, p) ==
    LET run == take_while_digit(SubSeq(s, p + 1, Len(s)))
    IN  StripZeros([k \in 1..Len(run) |-> DigitValue(run[k])])

\* C4: the parser is total: no policy string makes it fail or panic, and a
\* string without a well-formed marker parses to the policy with all five
\* fields unset.
C4_ParserTotal ==
    /\ ppc # "panic"
    /\ (ppc = "done" /\ ~(\E p \in 1..Len(x) : WellFormedMarker(x, p)))
          => policy = EmptyPolicy

\* C5: when every marker letter of the string is followed by a digit, each
\* field of the parsed policy is the decimal value of the digit run after the
\* last occurrence of its letter, and is unset when the letter does not occur.
C5_LastMarkerValue ==
    (/\ ppc = "done"
     /\ \A p \in 1..Len(x) : x[p] \in Markers => WellFormedMarker(x, p))
    => \A m \in Markers :
          LET occ == {p \in 1..Len(x) : x[p] = m}
          IN  policy[FieldOf(m)] =
                 IF occ = {} THEN None
                 ELSE DecimalAfter(x, CHOOSE p \in occ : \A q \in occ : q <= p)

\* C6: a character that is no marker letter, and a marker letter followed by
\* no digit, contributes nothing: scanning it leaves every field of the policy
\* as it was, so a value set by an earlier well-formed marker stays.
C6_IgnoredCharKeepsPolicy ==
    [][(/\ ppc = "scan"
        /\ pos <= Len(x)
        /\ ~WellFormedMarker(x, pos)) => policy' = policy]_vars

(***************************************************************************)
(* Claims about check_age                                                  *)
(***************************************************************************)
\* How many times record r occurs in seq.
Occurrences(seq, r) == Cardinality({i \in 1..Len(seq) : seq[i] = r})

\* C1: keep and delete partition the input: every input record is in exactly
\* one of the two lists, as often as in the input, and the lists hold nothing
\* else.
C1_Partition ==
    apc = "done" =>
        /\ \A r \in Range(snapshots) :
              /\ Occurrences(result.keep, r) + Occurrences(result.delete, r)
                    = Occurrences(snapshots, r)
              /\ ~(r \in Range(result.keep) /\ r \in Range(result.delete))
        /\ Range(result.keep) \cup Range(result.delete) \subseteq Range(snapshots)

\* C1's case: a run that kept some records and deleted others.
C1_Witness ==
    /\ apc = "done"
    /\ result.keep # <<>>
    /\ result.delete # <<>>

\* The period buckets of a rule among the records, and the newest creation
\* time of a bucket.
BucketsOf(snaps, pattern) == {format(s.created, pattern) : s \in Range(snaps)}

NewestIn(snaps, pattern, b) ==
    LET ts == {s.created : s \in {r \in Range(snaps) : format(r.created, pattern) = b}}
    IN  CHOOSE t \in ts : \A u \in ts : u <= t

\* The n most recent distinct buckets of a rule (all of them when fewer).
RecentBuckets(snaps, pattern, n) ==
    {b \in BucketsOf(snaps, pattern) :
        Cardinality({c \in BucketsOf(snaps, pattern) :
            NewestIn(snaps, pattern, c) > NewestIn(snaps, pattern, b)}) < n}

\* A count above zero, as a number.
CountOf(rule) == CHOOSE k \in 1..(MaxCount + 1) : Numeral(k) = rule

\* C3: for each rule with count N > 0 the kept records are exactly the newest
\* record of each of the N most recent distinct period buckets of that rule,
\* for all five rules: a kept record is the newest of such a bucket of some
\* rule, and each such bucket has its newest record kept.
C3_NewestOfRecentBuckets ==
    apc = "done" =>
        LET active == {k \in 1..5 : rules(rp)[k].rule \notin {None, <<0>>}}
            chosen(k) == RecentBuckets(snapshots, rules(rp)[k].pattern,
                                       CountOf(rules(rp)[k].rule))
            newest(k, s) ==
                /\ format(s.created, rules(rp)[k].pattern) \in chosen(k)
                /\ s.created = NewestIn(snapshots, rules(rp)[k].pattern,
                                        format(s.created, rules(rp)[k].pattern))
        IN  /\ \A s \in Range(result.keep) : \E k \in active : newest(k, s)
            /\ \A k \in active : \A b \in chosen(k) :
                  \E s \in Range(result.keep) :
                      /\ format(s.created, rules(rp)[k].pattern) = b
                      /\ newest(k, s)

RECURSIVE StableNewestFirst(_)
\* The list newest first with records of equal creation time in their input
\* order: what a stable sort returns.
StableNewestFirst(snaps) ==
    IF snaps = <<>> THEN <<>>
    ELSE LET i == CHOOSE j \in 1..Len(snaps) :
                     /\ \A k \in 1..Len(snaps) : snaps[k].created <= snaps[j].created
                     /\ \A k \in 1..(j - 1) : snaps[k].created < snaps[j].created
         IN  <<snaps[i]>> \o StableNewestFirst(RemoveAt(snaps, i))

HasSeparator(name) == "@" \in Range(name)

\* The part of an identifier before its first '@'.
DatasetPart(name) ==
    LET at == {i \in 1..Len(name) : name[i] = "@"}
    IN  IF at = {} THEN name
        ELSE SubSeq(name, 1, (CHOOSE i \in at : \A j \in at : i <= j) - 1)

Names(seq) == [k \in 1..Len(seq) |-> seq[k].name]

\* C8 as claimed: called with an identifier without '@', destroy_snapshot
\* returns a distinct error and issues no destroy command; a destroy command
\* is only issued for an identifier with '@'.
C8_ReturnsErrorWithoutSeparator ==
    dpc = "done" =>
        /\ ~HasSeparator(dname) =>
              /\ dres = "Err(Tried to destroy something that is not a snapshot)"
              /\ dissued = <<>>
        /\ \A n \in Range(dissued) : HasSeparator(n)

\* C8 as amended: called with an identifier without '@', destroy_snapshot
\* issues no destroy command and fails with an outcome no command produces:
\* the library's returns the error "Tried to destroy something that is not a
\* snapshot", the binary's panics with that message; a destroy command is
\* only issued for an identifier with '@'.
C8_RejectsWithoutSeparator ==
    dpc = "done" =>
        /\ ~HasSeparator(dname) =>
              /\ dres = IF dimpl = "lib"
                        THEN "Err(Tried to destroy something that is not a snapshot)"
                        ELSE "panic(Tried to destroy something that is not a snapshot)"
              /\ dres \notin {call_do(c) : c \in CmdOutcomes}
              /\ dissued = <<>>
        /\ \A n \in Range(dissued) : HasSeparator(n)

\* C8's case: a call with an identifier without '@' has ended.
C8_Witness ==
    /\ dpc = "done"
    /\ ~HasSeparator(dname)

\* C2: when the property lookup of a dataset group fails, gc_find returns an
\* error and no AgeCheckResult, and the run issues no destroy; a destroy is
\* only ever issued after the lookups of all groups have succeeded.
C2_NoDestroyAfterFailedLookup ==
    /\ issued # <<>> =>
          /\ looked = DOMAIN by_dataset
          /\ \A key \in DOMAIN by_dataset : props[key].kind = "ok"
    /\ (\E key \in DOMAIN by_dataset : props[key].kind = "err") =>
          /\ gpc \in {"find", "error", "panic"}
          /\ ~check.returned
          /\ issued = <<>>
    /\ gpc = "error" => ~check.returned /\ issued = <<>>

\* C2's case: the lookup of one group fails after another group has been
\* checked and has records to delete; the run ends with the error.
C2_Witness ==
    /\ gpc = "error"
    /\ looked # {}
    /\ gdelete # <<>>
    /\ \E key \in todo : props[key].kind = "err"

\* C7 as claimed: a gc run whose aggregation succeeded has, when it ends,
\* issued a destroy for every record of the delete list and for none of the
\* keep list.
C7_DestroysEveryDelete ==
    (check.returned /\ gpc \in {"done", "destroy_error", "panic"}) =>
        /\ Range(issued) = Range(Names(check.delete))
        /\ \A s \in Range(check.keep) : s.name \notin Range(issued)

\* C7 as amended: a gc run whose aggregation succeeded issues the destroys in
\* the order of the delete list and stops at the first destroy that fails or
\* the first line it cannot print: it issues one for every record of the
\* delete list when it ends normally, for the records up to and including the
\* one whose destroy fails, for the records before the one whose line is not
\* printed (or whose name is rejected), and never for a record of the keep
\* list.
C7_DestroysDeleteUntilFailure ==
    check.returned =>
        /\ Len(issued) <= Len(check.delete)
        /\ issued = SubSeq(Names(check.delete), 1, Len(issued))
        /\ gpc = "done" => Len(issued) = Len(check.delete)
        /\ gpc = "destroy_error" => Len(issued) = di
        /\ gpc \in {"destroy", "panic"} => Len(issued) = di - 1
        /\ \A s \in Range(check.keep) : s.name \notin Range(issued)

\* C7's case: a run has ended after destroying records while keeping others.
C7_Witness ==
    /\ gpc = "done"
    /\ issued # <<>>
    /\ check.keep # <<>>

\* C10: the aggregator's result equals, as sets, the union of the results of
\* check_age run on each dataset's records alone (the records whose
\* identifier has that dataset before its first '@', in listing order) with
\* that dataset's own policy.
C10_DatasetIsolation ==
    check.returned =>
        /\ Range(check.keep) \cup Range(check.delete) = Range(gsnaps)
        /\ \A d \in {DatasetPart(s.name) : s \in Range(gsnaps)} :
              \E c \in check_age(from_str("main", props[d].value).policy,
                                 SelectSeq(gsnaps, LAMBDA s : DatasetPart(s.name) = d)) :
                  /\ {s \in Range(check.keep) : DatasetPart(s.name) = d}
                        = Range(c.keep)
                  /\ {s \in Range(check.delete) : DatasetPart(s.name) = d}
                        = Range(c.delete)

\* C10's case: two datasets, both with the policy "h1", have snapshots of the
\* same hour, and each dataset keeps its own.
C10_Witness ==
    /\ check.returned
    /\ \A d \in Datasets : props[d] = Found(<<"h", "1">>)
    /\ \E s, t \in Range(check.keep) :
          /\ DatasetPart(s.name) # DatasetPart(t.name)
          /\ format(s.created, "%Y-%m-%d %H") = format(t.created, "%Y-%m-%d %H")
    /\ check.delete # <<>>


(***************************************************************************)
(* Claims about how check_age depends on the counts                        *)
(***************************************************************************)
\* The count a rule works with: an unset rule counts as zero.
EffectiveCount(c) == IF c = None THEN <<0>> ELSE c

\* The policies that differ from rp in one rule, whose count is larger.
LargerPolicies ==
    UNION {{[rp EXCEPT ![f] = c] :
               c \in {d \in Counts \ {None} :
                        /\ d # EffectiveCount(rp[f])
                        /\ NumLeq(EffectiveCount(rp[f]), d)}}
           : f \in Fields}

\* C11: for a fixed record list (in the order the sort left it), a larger
\* count of one rule, the other four unchanged, keeps every record that the
\* smaller count keeps.
C11_Monotone ==
    apc = "done" =>
        \A larger \in LargerPolicies :
            Range(result.keep) \subseteq
                Range(check_age_sorted(larger, ordered).keep)

\* C11's case: a run that kept some records and deleted a record which a
\* larger count of one rule keeps.
C11_Witness ==
    /\ apc = "done"
    /\ result.keep # <<>>
    /\ \E larger \in LargerPolicies : \E r \in Range(result.delete) :
          r \in Range(check_age_sorted(larger, ordered).keep)

\* Every count of the policy is unset or zero.
NothingRetained(pol) == \A f \in Fields : pol[f] \in {None, <<0>>}

\* C12: under a policy whose five counts are all unset or zero, keep is empty
\* and delete holds every input record, as often as the input does; for the
\* empty input both lists are empty.
C12_AllDeleted ==
    (apc = "done" /\ NothingRetained(rp)) =>
        /\ result.keep = <<>>
        /\ Len(result.delete) = Len(snapshots)
        /\ \A r \in Range(snapshots) :
              Occurrences(result.delete, r) = Occurrences(snapshots, r)
        /\ snapshots = <<>> => result.delete = <<>>

\* C12's case: a run on several records under a policy with a count set to
\* zero and no count above zero.
C12_Witness ==
    /\ apc = "done"
    /\ NothingRetained(rp)
    /\ \E f \in Fields : rp[f] = <<0>>
    /\ Len(snapshots) >= 2
    /\ result.delete # <<>>

\* The policy with the count of rule f unset where it is zero, and zero where
\* it is unset.
ZeroUnsetSwapped(pol, f) ==
    [pol EXCEPT ![f] = IF pol[f] = None THEN <<0>> ELSE None]

\* C13: a rule's count set to 0 gives the same keep and delete as that count
\* unset, the other four counts being equal.
C13_ZeroIsUnset ==
    apc = "done" =>
        \A f \in Fields :
            rp[f] \in {None, <<0>>} =>
                result = check_age_sorted(ZeroUnsetSwapped(rp, f), ordered)

\* C13's case: a run under a policy with one count set to zero and another
\* above zero, which kept some records and deleted others.
C13_Witness ==
    /\ apc = "done"
    /\ \E f \in Fields : rp[f] = <<0>>
    /\ ~NothingRetained(rp)
    /\ result.keep # <<>>
    /\ result.delete # <<>>

\* The records of the input that no record is newer than.
NewestRecords == {r \in Range(snapshots) :
                     \A q \in Range(snapshots) : q.created <= r.created}

\* The call is one the claim is about: a non-empty input and a policy with a
\* count above zero.
RetainsSomething ==
    /\ apc = "done"
    /\ snapshots # <<>>
    /\ ~NothingRetained(rp)

\* C15: for a non-empty input and a policy with a count above zero, the record
\* with the newest creation time is in keep; no record with the newest
\* creation time is in delete.
C15_NewestNeverDeleted ==
    RetainsSomething =>
        /\ NewestRecords \subseteq Range(result.keep)
        /\ NewestRecords \cap Range(result.delete) = {}

\* C15 as amended: for a non-empty input and a policy with a count above
\* zero, keep starts with a record that no record is newer than; when one
\* record alone has the newest creation time, it is that record.
C15_ANewestKept ==
    RetainsSomething =>
        /\ result.keep # <<>>
        /\ Head(result.keep) \in NewestRecords
        /\ Cardinality(NewestRecords) = 1 =>
              NewestRecords \subseteq Range(result.keep)

\* C15's case: a run on records of several creation times, one of them the
\* newest alone, which deleted some record.
C15_Witness ==
    /\ RetainsSomething
    /\ Cardinality(NewestRecords) = 1
    /\ Cardinality({r.created : r \in Range(snapshots)}) >= 2
    /\ result.delete # <<>>

(***************************************************************************)
(* Claims about parse_snapshots                                            *)
(***************************************************************************)
\* The row is one the listing opts out of: four fields, the last one "-".
OptedOut(row) == Len(row) = 4 /\ row[4] = <<"-">>

\* The dates that the creation fields of the listings write, as timestamps:
\* 2021-10-02 09:59 and 2021-10-05 02:00.  The other creation fields write
\* no date.
DateOf(created) ==
    CASE created = <<"S", "a", "t", " ", "O", "c", "t", " ", "2", " ", "0", "9", ":", "5", "9", " ", "2", "0", "2", "1">> -> 1633168740
      [] created = <<"T", "u", "e", " ", "O", "c", "t", " ", " ", "5", " ", "0", "2", ":", "0", "0", " ", "2", "0", "2", "1">> -> 1633399200

Dated == { <<"S", "a", "t", " ", "O", "c", "t", " ", "2", " ", "0", "9", ":", "5", "9", " ", "2", "0", "2", "1">>,
           <<"T", "u", "e", " ", "O", "c", "t", " ", " ", "5", " ", "0", "2", ":", "0", "0", " ", "2", "0", "2", "1">> }

\* The sizes that the size fields of the listings write, in bytes: 13 GiB,
\* 1.2 MiB (1258291.2 bytes) and 0 bytes.  "K" writes no size.
SizeOf(used) ==
    CASE used = <<"1", "3", "G">> -> <<1, 3, 9, 5, 8, 6, 4, 3, 7, 1, 2>>
      [] used = <<"1", ".", "2", "M">> -> <<1, 2, 5, 8, 2, 9, 1>>
      [] used = <<"0", "B">> -> <<0>>

Sized == { <<"1", "3", "G">>, <<"1", ".", "2", "M">>, <<"0", "B">> }

\* The row makes the call fail: not four fields, or not opted out and with a
\* creation field that writes no date or a size field that writes no size.
Unparseable(row) ==
    \/ Len(row) # 4
    \/ /\ ~OptedOut(row)
       /\ row[2] \notin Dated \/ row[3] \notin Sized

\* The rows that give a record, in input order.
TrackedRows == SelectSeq(lines, LAMBDA row : ~OptedOut(row))

\* C14: parse_snapshots returns an error and no list when some row has not
\* four fields or is not skipped and has an unparseable date or size;
\* otherwise it returns, in input order, one record for each row whose
\* retention field is not "-", with the row's name, date and size (the empty
\* list for the empty input).
C14_OneRecordPerTrackedRow ==
    lpc = "done" =>
        IF \E i \in 1..Len(lines) : Unparseable(lines[i])
        THEN lres.kind = "err" /\ lres.value = <<>>
        ELSE /\ lres.kind = "ok"
             /\ Len(lres.value) = Len(TrackedRows)
             /\ \A k \in 1..Len(TrackedRows) :
                   /\ lres.value[k].name = TrackedRows[k][1]
                   /\ lres.value[k].created = DateOf(TrackedRows[k][2])
                   /\ lres.value[k].used = SizeOf(TrackedRows[k][3])

\* C14's case: a listing with a row that is skipped, though its date does not
\* parse, and a row that gives a record.
C14_Witness ==
    /\ lpc = "done"
    /\ lres.kind = "ok"
    /\ lres.value # <<>>
    /\ \E i \in 1..Len(lines) :
          OptedOut(lines[i]) /\ lines[i][2] \notin Dated

====
